---- MODULE Spec2Model ----
(***************************************************************************)
(* The collaborative drum machine server (sinatra + sinatra-websocket):    *)
(* the process-wide $drum_pattern document, the settings.sockets registry  *)
(* and the three websocket callbacks ws.onopen / ws.onmessage / ws.onclose *)
(* of src/unnamed/part_000, lines 1699-1886.                               *)
(*                                                                         *)
(* The server runs on one EventMachine reactor thread, so every callback   *)
(* runs to completion before the next one starts: one action per callback. *)
(*                                                                         *)
(* The DrumMachine page (lines 1-1045) is followed where a property is     *)
(* about it: the React state it keeps of the server's document, its        *)
(* onmessage, its sequencer effect and its reconnection timer.             *)
(***************************************************************************)
EXTENDS Integers, Sequences, FiniteSets, TLC

(***************************************************************************)
(* Bounds of the model.                                                    *)
(***************************************************************************)
\* number of websocket connections that are ever accepted
MaxConns == 2
\* number of inbound frames handled in one behaviour
MaxFrames == 2

Conns == 1..MaxConns

(***************************************************************************)
(* Ruby values.  A value carries its class, so that nil, true, 3 and "3"   *)
(* stay different values, and :pitch and "pitch" different Hash keys.      *)
(***************************************************************************)
Nil == [class |-> "NilClass"]
True == [class |-> "TrueClass"]
False == [class |-> "FalseClass"]
Integer(n) == [class |-> "Integer", value |-> n]
Float(lit) == [class |-> "Float", value |-> lit]
Str(s) == [class |-> "String", value |-> s]
Sym(s) == [class |-> "Symbol", value |-> s]

\* Ruby truthiness: only nil and false are falsy
Truthy(v) == v # Nil /\ v # False
\* the ! operator
Not(v) == IF Truthy(v) THEN False ELSE True

\* Array.new(16, false)
PatternLength == 16
ArrayNew(n, v) == [i \in 1..n |-> v]

\* Array#[] with an Integer index (0-based, negative counts from the end,
\* nil when out of range)
ArrayGet(arr, i) ==
    IF i >= 0
    THEN IF i < Len(arr) THEN arr[i + 1] ELSE Nil
    ELSE IF i >= -Len(arr) THEN arr[Len(arr) + i + 1] ELSE Nil

\* Array#[]= raises IndexError when a negative index is below -length
ArraySetRaises(arr, i) == i < -Len(arr)

\* Array#[]= with an Integer index: an index at or past the end grows the
\* array, filling the gap with nil
ArraySet(arr, i, v) ==
    IF i >= 0
    THEN IF i < Len(arr)
         THEN [arr EXCEPT ![i + 1] = v]
         ELSE [j \in 1..(i + 1) |->
                  IF j <= Len(arr) THEN arr[j] ELSE IF j = i + 1 THEN v ELSE Nil]
    ELSE [arr EXCEPT ![Len(arr) + i + 1] = v]

(***************************************************************************)
(* A Ruby Hash with mixed keys is a sequence of entries in insertion order.*)
(***************************************************************************)
Entry(k, v) == [key |-> k, val |-> v]

HashHasKey(h, k) == \E i \in 1..Len(h) : h[i].key = k

HashGet(h, k) ==
    IF HashHasKey(h, k)
    THEN h[CHOOSE i \in 1..Len(h) : h[i].key = k].val
    ELSE Nil

\* Hash#[]=: replaces the value of an existing key in place, appends a new key
HashStore(h, k, v) ==
    IF HashHasKey(h, k)
    THEN [i \in 1..Len(h) |-> IF h[i].key = k THEN Entry(k, v) ELSE h[i]]
    ELSE Append(h, Entry(k, v))

\* Hash#merge!(other): stores every entry of other, in other's order
RECURSIVE HashMerge(_, _)
HashMerge(h, other) ==
    IF other = <<>>
    THEN h
    ELSE HashMerge(HashStore(h, Head(other).key, Head(other).val), Tail(other))

(***************************************************************************)
(* $drum_pattern                                                           *)
(***************************************************************************)
TrackNames == {"kick", "snare", "hihat", "openhat"}

InitialParams(pitch, decay, volume) ==
    << Entry(Sym("pitch"), Integer(pitch)),
       Entry(Sym("decay"), Float(decay)),
       Entry(Sym("volume"), Float(volume)) >>

InitialTracks ==
    [t \in TrackNames |->
        [pattern |-> ArrayNew(PatternLength, False),
         params |->
            CASE t = "kick" -> InitialParams(60, "0.3", "0.8")
              [] t = "snare" -> InitialParams(200, "0.2", "0.7")
              [] t = "hihat" -> InitialParams(800, "0.1", "0.6")
              [] t = "openhat" -> InitialParams(1000, "0.4", "0.5")]]

InitialDrumPattern ==
    [bpm |-> Integer(120),
     playing |-> False,
     current_step |-> Integer(0),
     tracks |-> InitialTracks]

\* $drum_pattern[:tracks][track.to_sym]: the track's name when the Hash has
\* that key
KnownTrack(track) == track.class = "String" /\ track.value \in TrackNames

(***************************************************************************)
(* JSON.generate: Symbol and String keys both become member names, so a    *)
(* Hash holding :pitch and "pitch" yields two members named pitch.         *)
(***************************************************************************)
GenerateParams(params) ==
    [i \in 1..Len(params) |->
        [name |-> params[i].key.value, value |-> params[i].val]]

GenerateState(dp) ==
    [bpm |-> dp.bpm,
     playing |-> dp.playing,
     current_step |-> dp.current_step,
     tracks |-> [t \in DOMAIN dp.tracks |->
                    [pattern |-> dp.tracks[t].pattern,
                     params |-> GenerateParams(dp.tracks[t].params)]]]

\* JSON.parse of a params object: every member name becomes a String key
\* (a repeated name keeps its last value)
ParseParams(members) ==
    [class |-> "Hash",
     entries |-> HashMerge(<<>>,
                    [i \in 1..Len(members) |->
                        Entry(Str(members[i].name), members[i].value)])]

\* data['name'] on the parsed frame: nil when the member is missing
Field(data, name) == IF name \in DOMAIN data THEN data[name] ELSE Nil

\* x.to_sym is defined for String and Symbol only
RespondsToSym(x) == x.class \in {"String", "Symbol"}

(***************************************************************************)
(* The branches of ws.onmessage.  Each yields the document after the       *)
(* branch, the message handed to the broadcast (at most one) and the       *)
(* exception that leaves the branch, if any ("none" otherwise).            *)
(***************************************************************************)
Outcome(dp, msgs, exc) == [drum_pattern |-> dp, broadcast |-> msgs, raised |-> exc]

Message(type, data) == [type |-> type, data |-> data]

\* a toggle that switches the step on instead of negating it
ToggleStep_SetsOn(dp, data) ==
    LET track == Field(data, "track")
        step == Field(data, "step")
    IN  IF ~RespondsToSym(track) THEN Outcome(dp, <<>>, "NoMethodError")
        ELSE IF ~KnownTrack(track) THEN Outcome(dp, <<>>, "none")
        ELSE IF step.class # "Integer" THEN Outcome(dp, <<>>, "TypeError")
        ELSE IF ArraySetRaises(dp.tracks[track.value].pattern, step.value)
             THEN Outcome(dp, <<>>, "IndexError")
        ELSE
          LET old == dp.tracks[track.value].pattern
              new == ArraySet(old, step.value, True)
              dp2 == [dp EXCEPT !.tracks[track.value].pattern = new]
          IN  Outcome(dp2,
                      << Message("pattern_update",
                                 [track |-> track,
                                  step |-> step,
                                  active |-> ArrayGet(new, step.value)]) >>,
                      "none")

\* a toggle that reports the step as it was before the assignment
ToggleStep_SendsStaleActive(dp, data) ==
    LET track == Field(data, "track")
        step == Field(data, "step")
    IN  IF ~RespondsToSym(track) THEN Outcome(dp, <<>>, "NoMethodError")
        ELSE IF ~KnownTrack(track) THEN Outcome(dp, <<>>, "none")
        ELSE IF step.class # "Integer" THEN Outcome(dp, <<>>, "TypeError")
        ELSE IF ArraySetRaises(dp.tracks[track.value].pattern, step.value)
             THEN Outcome(dp, <<>>, "IndexError")
        ELSE
          LET old == dp.tracks[track.value].pattern
              new == ArraySet(old, step.value, Not(ArrayGet(old, step.value)))
              dp2 == [dp EXCEPT !.tracks[track.value].pattern = new]
          IN  Outcome(dp2,
                      << Message("pattern_update",
                                 [track |-> track,
                                  step |-> step,
                                  active |-> ArrayGet(old, step.value)]) >>,
                      "none")

\* a toggle that negates the step in every track
ToggleStep_EveryTrack(dp, data) ==
    LET track == Field(data, "track")
        step == Field(data, "step")
    IN  IF ~RespondsToSym(track) THEN Outcome(dp, <<>>, "NoMethodError")
        ELSE IF ~KnownTrack(track) THEN Outcome(dp, <<>>, "none")
        ELSE IF step.class # "Integer" THEN Outcome(dp, <<>>, "TypeError")
        ELSE IF ArraySetRaises(dp.tracks[track.value].pattern, step.value)
             THEN Outcome(dp, <<>>, "IndexError")
        ELSE
          LET new(t) == ArraySet(dp.tracks[t].pattern, step.value,
                                 Not(ArrayGet(dp.tracks[t].pattern, step.value)))
              dp2 == [dp EXCEPT !.tracks =
                        [t \in DOMAIN dp.tracks |->
                            [dp.tracks[t] EXCEPT !.pattern = new(t)]]]
          IN  Outcome(dp2,
                      << Message("pattern_update",
                                 [track |-> track,
                                  step |-> step,
                                  active |-> ArrayGet(new(track.value), step.value)]) >>,
                      "none")

\* when 'toggle_step'
ToggleStep(dp, data) ==
    LET track == Field(data, "track")
        step == Field(data, "step")
    IN  IF ~RespondsToSym(track) THEN Outcome(dp, <<>>, "NoMethodError")
        ELSE IF ~KnownTrack(track) THEN Outcome(dp, <<>>, "none")
        ELSE IF step.class # "Integer" THEN Outcome(dp, <<>>, "TypeError")
        ELSE IF ArraySetRaises(dp.tracks[track.value].pattern, step.value)
             THEN Outcome(dp, <<>>, "IndexError")
        ELSE
          LET old == dp.tracks[track.value].pattern
              new == ArraySet(old, step.value, Not(ArrayGet(old, step.value)))
              dp2 == [dp EXCEPT !.tracks[track.value].pattern = new]
          IN  Outcome(dp2,
                      << Message("pattern_update",
                                 [track |-> track,
                                  step |-> step,
                                  active |-> ArrayGet(new, step.value)]) >>,
                      "none")

\* an update_params whose broadcast stands after the `if`, not inside it
UpdateParams_BroadcastsAnyTrack(dp, data) ==
    LET track == Field(data, "track")
        params == Field(data, "params")
    IN  IF ~RespondsToSym(track) THEN Outcome(dp, <<>>, "NoMethodError")
        ELSE IF ~KnownTrack(track)
             THEN Outcome(dp,
                          << Message("params_update",
                                     [track |-> track, params |-> <<>>]) >>,
                          "none")
        ELSE IF params.class # "Hash" THEN Outcome(dp, <<>>, "TypeError")
        ELSE
          LET merged == HashMerge(dp.tracks[track.value].params, params.entries)
              dp2 == [dp EXCEPT !.tracks[track.value].params = merged]
          IN  Outcome(dp2,
                      << Message("params_update",
                                 [track |-> track,
                                  params |-> GenerateParams(merged)]) >>,
                      "none")

\* an update_params that assigns the given Hash instead of merging it
UpdateParams_Replaces(dp, data) ==
    LET track == Field(data, "track")
        params == Field(data, "params")
    IN  IF ~RespondsToSym(track) THEN Outcome(dp, <<>>, "NoMethodError")
        ELSE IF ~KnownTrack(track) THEN Outcome(dp, <<>>, "none")
        ELSE IF params.class # "Hash" THEN Outcome(dp, <<>>, "TypeError")
        ELSE
          LET dp2 == [dp EXCEPT !.tracks[track.value].params = params.entries]
          IN  Outcome(dp2,
                      << Message("params_update",
                                 [track |-> track,
                                  params |-> GenerateParams(params.entries)]) >>,
                      "none")

\* when 'update_params'
UpdateParams(dp, data) ==
    LET track == Field(data, "track")
        params == Field(data, "params")
    IN  IF ~RespondsToSym(track) THEN Outcome(dp, <<>>, "NoMethodError")
        ELSE IF ~KnownTrack(track) THEN Outcome(dp, <<>>, "none")
        ELSE IF params.class # "Hash" THEN Outcome(dp, <<>>, "TypeError")
        ELSE
          LET merged == HashMerge(dp.tracks[track.value].params, params.entries)
              dp2 == [dp EXCEPT !.tracks[track.value].params = merged]
          IN  Outcome(dp2,
                      << Message("params_update",
                                 [track |-> track,
                                  params |-> GenerateParams(merged)]) >>,
                      "none")

\* a play that also rewinds to step 0
TransportControl_PlayRewinds(dp, data) ==
    LET action == Field(data, "action")
        dp2 == CASE action = Str("play") ->
                      [dp EXCEPT !.playing = True, !.current_step = Integer(0)]
                 [] action = Str("stop") ->
                      [dp EXCEPT !.playing = False, !.current_step = Integer(0)]
                 [] action = Str("set_bpm") ->
                      [dp EXCEPT !.bpm = Field(data, "bpm")]
                 [] OTHER -> dp
    IN  Outcome(dp2,
                << Message("transport_update",
                           [playing |-> dp2.playing,
                            current_step |-> dp2.current_step,
                            bpm |-> dp2.bpm]) >>,
                "none")

\* a stop that leaves the step where it was
TransportControl_StopKeepsStep(dp, data) ==
    LET action == Field(data, "action")
        dp2 == CASE action = Str("play") -> [dp EXCEPT !.playing = True]
                 [] action = Str("stop") -> [dp EXCEPT !.playing = False]
                 [] action = Str("set_bpm") ->
                      [dp EXCEPT !.bpm = Field(data, "bpm")]
                 [] OTHER -> dp
    IN  Outcome(dp2,
                << Message("transport_update",
                           [playing |-> dp2.playing,
                            current_step |-> dp2.current_step,
                            bpm |-> dp2.bpm]) >>,
                "none")

\* when 'transport_control'
TransportControl(dp, data) ==
    LET action == Field(data, "action")
        dp2 == CASE action = Str("play") -> [dp EXCEPT !.playing = True]
                 [] action = Str("stop") ->
                      [dp EXCEPT !.playing = False, !.current_step = Integer(0)]
                 [] action = Str("set_bpm") ->
                      [dp EXCEPT !.bpm = Field(data, "bpm")]
                 [] OTHER -> dp
    IN  Outcome(dp2,
                << Message("transport_update",
                           [playing |-> dp2.playing,
                            current_step |-> dp2.current_step,
                            bpm |-> dp2.bpm]) >>,
                "none")

\* a step_update that wraps the step into the 16 steps
StepUpdate_Wraps(dp, data) ==
    LET step == Integer(Field(data, "step").value % PatternLength)
        dp2 == [dp EXCEPT !.current_step = step]
    IN  Outcome(dp2, << Message("step_position", [current_step |-> step]) >>, "none")

\* when 'step_update'
StepUpdate(dp, data) ==
    LET dp2 == [dp EXCEPT !.current_step = Field(data, "step")]
    IN  Outcome(dp2,
                << Message("step_position",
                           [current_step |-> Field(data, "step")]) >>,
                "none")

\* a clear that overwrites each entry in place (pattern.map { false })
ClearPattern_KeepsLength(dp, data) ==
    LET dp2 == [dp EXCEPT !.tracks =
                   [t \in DOMAIN dp.tracks |->
                       [dp.tracks[t] EXCEPT
                           !.pattern = ArrayNew(Len(dp.tracks[t].pattern), False)]]]
    IN  Outcome(dp2, << Message("state_update", GenerateState(dp2)) >>, "none")

\* a clear that generates its broadcast before it clears
ClearPattern_SendsStaleState(dp, data) ==
    LET dp2 == [dp EXCEPT !.tracks =
                   [t \in DOMAIN dp.tracks |->
                       [dp.tracks[t] EXCEPT
                           !.pattern = ArrayNew(PatternLength, False)]]]
    IN  Outcome(dp2, << Message("state_update", GenerateState(dp)) >>, "none")

\* a clear that also rewinds to step 0
ClearPattern_Rewinds(dp, data) ==
    LET dp2 == [dp EXCEPT !.current_step = Integer(0),
                          !.tracks =
                   [t \in DOMAIN dp.tracks |->
                       [dp.tracks[t] EXCEPT
                           !.pattern = ArrayNew(PatternLength, False)]]]
    IN  Outcome(dp2, << Message("state_update", GenerateState(dp2)) >>, "none")

\* when 'clear_pattern'
ClearPattern(dp, data) ==
    LET dp2 == [dp EXCEPT !.tracks =
                   [t \in DOMAIN dp.tracks |->
                       [dp.tracks[t] EXCEPT
                           !.pattern = ArrayNew(PatternLength, False)]]]
    IN  Outcome(dp2, << Message("state_update", GenerateState(dp2)) >>, "none")

\* JSON.parse of a text that is a JSON array: an Array, not a Hash
JsonArray == [array |-> <<>>]

\* a dispatch whose else branch answers with the state
Dispatch_AnswersUnknownType(dp, data) ==
    LET type == Field(data, "type")
    IN  CASE type = Str("toggle_step") -> ToggleStep(dp, data)
          [] type = Str("update_params") -> UpdateParams(dp, data)
          [] type = Str("transport_control") -> TransportControl(dp, data)
          [] type = Str("step_update") -> StepUpdate(dp, data)
          [] type = Str("clear_pattern") -> ClearPattern(dp, data)
          [] OTHER -> Outcome(dp, << Message("state_update", GenerateState(dp)) >>,
                              "none")

\* case data['type'] ... end: no branch for any other type.  data['type'] on
\* an Array raises TypeError (no implicit conversion of String into Integer).
Dispatch(dp, data) ==
    LET type == Field(data, "type")
    IN  CASE data = JsonArray -> Outcome(dp, <<>>, "TypeError")
          [] type = Str("toggle_step") -> ToggleStep(dp, data)
          [] type = Str("update_params") -> UpdateParams(dp, data)
          [] type = Str("transport_control") -> TransportControl(dp, data)
          [] type = Str("step_update") -> StepUpdate(dp, data)
          [] type = Str("clear_pattern") -> ClearPattern(dp, data)
          [] OTHER -> Outcome(dp, <<>>, "none")

(***************************************************************************)
(* settings.sockets.each { |s| s.send(broadcast_message) }                 *)
(* The sockets are visited in registry order.  s.send raises on a socket   *)
(* that no longer takes frames; nothing rescues it, so the exception ends  *)
(* the each loop and leaves the handler.                                   *)
(***************************************************************************)
\* index in socks of the first socket whose send raises, Len(socks)+1 if none
FirstFailure(socks, failing) ==
    IF \E i \in 1..Len(socks) : socks[i] \in failing
    THEN CHOOSE i \in 1..Len(socks) :
            /\ socks[i] \in failing
            /\ \A j \in 1..(i - 1) : socks[j] \notin failing
    ELSE Len(socks) + 1

NoMessages == [c \in Conns |-> <<>>]

\* a broadcast that leaves out the last registered socket
Broadcast_DropsLast(socks, failing, msgs) ==
    [sent |-> [c \in Conns |->
                 IF \E i \in 1..(Len(socks) - 1) : socks[i] = c
                 THEN msgs ELSE <<>>],
     raised |-> "none"]

\* a broadcast that skips every second socket, as an each loop does when the
\* element it has just visited is deleted from the array
Broadcast_SkipsEverySecond(socks, failing, msgs) ==
    [sent |-> [c \in Conns |->
                 IF \E i \in 1..Len(socks) : socks[i] = c /\ i % 2 = 1
                 THEN msgs ELSE <<>>],
     raised |-> "none"]

\* a broadcast that sends the message to every socket twice
Broadcast_SendsTwice(socks, failing, msgs) ==
    [sent |-> [c \in Conns |->
                 IF \E i \in 1..Len(socks) : socks[i] = c
                 THEN msgs \o msgs ELSE <<>>],
     raised |-> "none"]

\* settings.sockets.each { |s| s.send(broadcast_message) }
Broadcast(socks, failing, msgs) ==
    IF msgs = <<>>
    THEN [sent |-> NoMessages, raised |-> "none"]
    ELSE LET stop == FirstFailure(socks, failing)
         IN  [sent |-> [c \in Conns |->
                          IF \E i \in 1..(stop - 1) : socks[i] = c
                          THEN msgs ELSE <<>>],
              raised |-> IF stop <= Len(socks) THEN "WebSocketError" ELSE "none"]

(***************************************************************************)
(* Frames the clients send, already parsed by JSON.parse.                  *)
(***************************************************************************)
\* two of the server's tracks, and a track only the client has
KnownTrackInputs == {Str("kick"), Str("snare")}
UnknownTrackInputs == {Str("arp")}
\* an in-range step, a step past the end, the last step counted from the end,
\* and a negative step below -16
StepInputs == {Integer(3), Integer(20), Integer(-1), Integer(-17)}
\* playhead positions: one in range, one past the last step
PositionInputs == {Integer(3), Integer(20)}
VolumeParams == ParseParams(<< [name |-> "volume", value |-> Float("0.5")] >>)
PitchParams == ParseParams(<< [name |-> "pitch", value |-> Integer(72)] >>)
ParamsInputs == {VolumeParams, PitchParams}
\* a tempo in [60,180] and one above it
BpmInputs == {Integer(90), Integer(200)}

\* an action that is none of play, stop, set_bpm
UnknownActionInputs == {"pause"}
\* a type that has no when-branch
UnknownTypeInputs == {"ping"}

Frames ==
    { [type |-> Str("toggle_step"), track |-> t, step |-> s] :
          t \in KnownTrackInputs, s \in StepInputs }
    \cup { [type |-> Str("toggle_step"), track |-> t, step |-> Integer(3)] :
          t \in UnknownTrackInputs }
    \cup { [type |-> Str("update_params"), track |-> t, params |-> p] :
          t \in KnownTrackInputs, p \in ParamsInputs }
    \cup { [type |-> Str("update_params"), track |-> t, params |-> VolumeParams] :
          t \in UnknownTrackInputs }
    \cup { [type |-> Str("transport_control"), action |-> Str(a)] :
          a \in {"play", "stop"} \cup UnknownActionInputs }
    \cup { [type |-> Str("transport_control")] }
    \cup { [type |-> Str("transport_control"), action |-> Str("set_bpm"), bpm |-> b] :
          b \in BpmInputs }
    \cup { [type |-> Str("transport_control"), action |-> Str("set_bpm")] }
    \cup { [type |-> Str("step_update"), step |-> s] : s \in PositionInputs }
    \cup { [type |-> Str("clear_pattern")] }
    \cup { [type |-> Str(t)] : t \in UnknownTypeInputs }

\* Frames that are valid JSON but lack a member the branch reads, or are not
\* an object: toggle_step and update_params without track, update_params
\* without params, and the array [].
MalformedFrames ==
    { [type |-> Str("toggle_step"), step |-> Integer(3)],
      [type |-> Str("update_params"), params |-> VolumeParams],
      [type |-> Str("update_params"), track |-> Str("kick")],
      JsonArray }

\* a text frame that JSON.parse rejects with JSON::ParserError
NotJSON == [text |-> "{not json"]

\* what arrives in ws.onmessage: msg
WireFrames == Frames \cup {NotJSON}

\* a handler without the rescue clause: the parse error leaves it
OnMessage_LetsParseErrorOut(dp, msg) ==
    IF msg = NotJSON
    THEN Outcome(dp, <<>>, "JSON::ParserError")
    ELSE Dispatch(dp, msg)

\* begin data = JSON.parse(msg) ... rescue JSON::ParserError => e; puts ... end
\* The rescue clause only logs: nothing is changed, nothing is sent, and no
\* exception leaves the handler.
OnMessage(dp, msg) ==
    IF msg = NotJSON
    THEN Outcome(dp, <<>>, "none")
    ELSE Dispatch(dp, msg)

(***************************************************************************)
(* The client (DrumMachine): the React state it keeps of the server's      *)
(* tracks and transport, and wsRef.current.onmessage, which applies the    *)
(* server's messages to it.  JSON.parse on the client turns a message into *)
(* JavaScript values: an object keeps one value per member name, the last. *)
(***************************************************************************)
JsNull == [js |-> "null"]
JsBoolean(b) == [js |-> "boolean", value |-> b]
JsNumber(literal) == [js |-> "number", literal |-> literal]
JsString(str) == [js |-> "string", value |-> str]

\* JSON.parse of a scalar the server serialised
JsValue(v) ==
    CASE v.class = "NilClass" -> JsNull
      [] v.class = "TrueClass" -> JsBoolean(TRUE)
      [] v.class = "FalseClass" -> JsBoolean(FALSE)
      [] v.class \in {"Integer", "Float"} -> JsNumber(v)
      [] OTHER -> JsString(v.value)

\* JSON.parse of an array of scalars
JsArray(arr) == [i \in 1..Len(arr) |-> JsValue(arr[i])]

\* JSON.parse of an object given as its members in order: a repeated name
\* keeps the value of its last member
JsObject(members) ==
    [n \in {members[i].name : i \in 1..Len(members)} |->
        JsValue(members[CHOOSE i \in 1..Len(members) :
                           /\ members[i].name = n
                           /\ \A j \in (i + 1)..Len(members) : members[j].name # n
                       ].value)]

\* useState(...): the state a client starts with, for the server's tracks
ClientInitialParams(pitch, decay, volume) ==
    JsObject(<< [name |-> "pitch", value |-> Integer(pitch)],
                [name |-> "decay", value |-> Float(decay)],
                [name |-> "volume", value |-> Float(volume)],
                [name |-> "distortion", value |-> Integer(0)],
                [name |-> "delay", value |-> Integer(0)],
                [name |-> "chorus", value |-> Integer(0)] >>)

ClientInitial ==
    [pattern |-> [t \in TrackNames |-> JsArray(ArrayNew(PatternLength, False))],
     params |-> [t \in TrackNames |->
                    CASE t = "kick" -> ClientInitialParams(60, "0.3", "0.8")
                      [] t = "snare" -> ClientInitialParams(200, "0.2", "0.7")
                      [] t = "hihat" -> ClientInitialParams(800, "0.1", "0.6")
                      [] t = "openhat" -> ClientInitialParams(1000, "0.4", "0.5")],
     isPlaying |-> JsBoolean(FALSE),
     currentStep |-> JsNumber(Integer(0)),
     bpm |-> JsNumber(Integer(120))]

\* prev[track].map((step, i) => i === data.data.step ? data.data.active : step)
JsMapStep(arr, step, active) ==
    [i \in 1..Len(arr) |->
        IF step = JsNumber(Integer(i - 1)) THEN active ELSE arr[i]]

\* an onmessage whose state_update case keeps the patterns it has
ClientOnMessage_KeepsPatterns(state, m) ==
    CASE m.type = "state_update" ->
            [pattern |-> state.pattern,
             params |-> [t \in TrackNames |-> JsObject(m.data.tracks[t].params)],
             isPlaying |-> JsValue(m.data.playing),
             currentStep |-> JsValue(m.data.current_step),
             bpm |-> JsValue(m.data.bpm)]
      [] OTHER -> state

\* wsRef.current.onmessage: switch (data.type)
ClientOnMessage(state, m) ==
    CASE m.type = "state_update" ->
            [pattern |-> [t \in TrackNames |-> JsArray(m.data.tracks[t].pattern)],
             params |-> [t \in TrackNames |-> JsObject(m.data.tracks[t].params)],
             isPlaying |-> JsValue(m.data.playing),
             currentStep |-> JsValue(m.data.current_step),
             bpm |-> JsValue(m.data.bpm)]
      [] m.type = "pattern_update" ->
            [state EXCEPT !.pattern[m.data.track.value] =
                JsMapStep(@, JsValue(m.data.step), JsValue(m.data.active))]
      [] m.type = "params_update" ->
            [state EXCEPT !.params[m.data.track.value] = JsObject(m.data.params)]
      [] m.type = "transport_update" ->
            [state EXCEPT !.isPlaying = JsValue(m.data.playing),
                          !.currentStep = JsValue(m.data.current_step),
                          !.bpm = JsValue(m.data.bpm)]
      [] m.type = "step_position" ->
            [state EXCEPT !.currentStep = JsValue(m.data.current_step)]
      [] OTHER -> state

\* the peer of the connection is not a DrumMachine page (a script, a test
\* client): it keeps no React state
NoClient == [js |-> "undefined"]

\* The sequencer useEffect, dependencies [isPlaying, pattern, params, bpm]:
\* it runs again after a render in which one of them changed.  setPattern
\* and setParams always store a new object; isPlaying and bpm change when
\* their value does.  When the page is not playing the effect ends with
\* setCurrentStep(0).  prev is the state before message m, next the state
\* the reducer made of it.
SequencerEffect(prev, next, m) ==
    LET rerun == \/ m.type \in {"state_update", "pattern_update", "params_update"}
                 \/ next.isPlaying # prev.isPlaying
                 \/ next.bpm # prev.bpm
    IN  IF rerun /\ next.isPlaying # JsBoolean(TRUE)
        THEN [next EXCEPT !.currentStep = JsNumber(Integer(0))]
        ELSE next

\* one message: onmessage, the render, the effects
ClientHandles(state, m) == SequencerEffect(state, ClientOnMessage(state, m), m)

\* the messages of one callback, applied in the order they were sent
RECURSIVE ClientReceives(_, _)
ClientReceives(state, msgs) ==
    IF msgs = <<>> \/ state = NoClient
    THEN state
    ELSE ClientReceives(ClientHandles(state, Head(msgs)), Tail(msgs))

\* the sequencer of the page runs and every tick of it calls
\* sendWebSocketMessage({type: 'step_update', step})
SequencerRuns(state) == state # NoClient /\ state.isPlaying = JsBoolean(TRUE)

(***************************************************************************)
(* The page's timers: the interval of the companion-mode sequencer and the *)
(* debounce timers of the parameter sliders.                               *)
(***************************************************************************)
\* sequenceRef.current of a page whose sequencer is not running
NoSequence == [running |-> FALSE]

\* no step_update has left the interval yet
NoStep == <<>>

\* sequenceRef.current of a running companion-mode sequencer: the interval's
\* currentStepLocal, and the step its last callback sent, as a sequence of
\* at most one step (kept to state what the interval emits; the page does
\* not store it)
Interval(currentStepLocal, emitted) ==
    [running |-> TRUE, currentStepLocal |-> currentStepLocal, emitted |-> emitted]

\* a counter that runs past the last step
NextStep_NoWrap(currentStepLocal) == currentStepLocal + 1

\* currentStepLocal = (currentStepLocal + 1) % 16
NextStep(currentStepLocal) == (currentStepLocal + 1) % 16

\* The sequencer useEffect runs: the cleanup of its last run stops the
\* interval, then `if (isPlaying)` starts a new one with currentStepLocal = 0.
RunEffect(seq, state) ==
    IF state.isPlaying = JsBoolean(TRUE) THEN Interval(0, NoStep) ELSE NoSequence

\* whether the render after message m changed one of the dependencies
\* [isPlaying, pattern, params, bpm] of the sequencer useEffect
EffectReruns(prev, next, m) ==
    \/ m.type \in {"state_update", "pattern_update", "params_update"}
    \/ next.isPlaying # prev.isPlaying
    \/ next.bpm # prev.bpm

\* sequenceRef.current after the page handled the messages of one callback
RECURSIVE SequencerAfter(_, _, _)
SequencerAfter(seq, state, msgs) ==
    IF msgs = <<>> \/ state = NoClient
    THEN seq
    ELSE LET next == ClientHandles(state, Head(msgs))
         IN  SequencerAfter(
                 IF EffectReruns(state, ClientOnMessage(state, Head(msgs)), Head(msgs))
                 THEN RunEffect(seq, next)
                 ELSE seq,
                 next, Tail(msgs))

\* JSON.stringify of a JavaScript value, read by the server's JSON.parse
RubyValue(js) ==
    CASE js.js = "null" -> Nil
      [] js.js = "boolean" -> IF js.value THEN True ELSE False
      [] js.js = "number" -> js.literal
      [] OTHER -> Str(js.value)

\* the order of the keys of a params object of the page
ParamNames == <<"pitch", "decay", "volume", "distortion", "delay", "chorus">>

\* JSON.stringify(newParams) read by the server's JSON.parse: one String key
\* per own property of the object, in the order of its keys
StringifyParams(obj) ==
    LET names == SelectSeq(ParamNames, LAMBDA n : n \in DOMAIN obj)
    IN  ParseParams([i \in 1..Len(names) |->
                        [name |-> names[i], value |-> RubyValue(obj[names[i]])]])

\* paramUpdateTimeouts.current[track] before the first change to the track
NoTimeout == [pending |-> FALSE]

\* paramUpdateTimeouts.current[track] after a change: the timer, pending
\* until it fires or is cleared, with the newParams of its callback.  To
\* state what becomes of a change the record also keeps whether the socket
\* was OPEN when updateParams was called, and the names of the fields
\* changed since a timer of the track last fired.
Timeout(newParams, open, names) ==
    [pending |-> TRUE, params |-> newParams, open |-> open, names |-> names]

\* { ...params[track], [name]: value }
SpreadParams(params, name, value) ==
    [n \in DOMAIN params \cup {name} |-> IF n = name THEN value ELSE params[n]]

\* the tracks whose sliders the model moves: one of the server's tracks
\* (slider disabled while the page is not connected) and the page's own bass
\* track (slider never disabled)
SliderTracks == {"kick", "bass"}

\* the sliders the model moves and the value each is moved to
SliderInputs ==
    { [track |-> "kick", name |-> "volume", value |-> JsNumber(Float("0.5"))],
      [track |-> "kick", name |-> "pitch", value |-> JsNumber(Integer(72))],
      [track |-> "bass", name |-> "volume", value |-> JsNumber(Float("0.9"))] }

(***************************************************************************)
(* State                                                                   *)
(***************************************************************************)

\* no message has been sent to the connection yet
NothingYet == [type |-> "", snapshot |-> FALSE]

\* The record kept of the first message a connection is ever sent: its type,
\* and whether its data is the serialisation of $drum_pattern as it stands
\* when the message is sent.  msgs are the messages one callback sends to the
\* connection, dp is $drum_pattern at that moment.
FirstMessage(known, msgs, dp) ==
    IF known # NothingYet \/ msgs = <<>>
    THEN known
    ELSE [type |-> msgs[1].type, snapshot |-> (msgs[1].data = GenerateState(dp))]
VARIABLES
    drum_pattern,   \* $drum_pattern
    sockets,        \* settings.sockets, an Array of connections
    session,        \* per connection: "connecting", "open" or "closed"
    dead,           \* open connections whose send raises (onclose not yet run)
    last,           \* the callback that ran last, with its connection and frame
    before,         \* $drum_pattern when that callback started
    sockets_before, \* settings.sockets when that callback started
    sent,           \* per connection, the messages that callback sent to it
    first_message,  \* per connection, what the first message ever sent to it was
    client,         \* per connection, the React state of the client at its other end
    raised,         \* the exception that left that callback, "none" if none
    nframes,        \* number of frames handled so far
    mounted,        \* per connection, whether the page's component is mounted
    paramUpdateTimeouts, \* per connection and track, the pending debounce timer
    sequenceRef     \* per connection, the interval of the page's sequencer

vars == <<drum_pattern, sockets, session, dead, last, before, sockets_before,
          sent, first_message, client, raised, nframes, mounted,
          paramUpdateTimeouts, sequenceRef>>

\* the part of a page's state that only the page's own timers and handlers
\* change
timers == <<mounted, paramUpdateTimeouts>>

\* the React states after each page handled what one callback sent it; the
\* handlers of a page that is not mounted any more change no state
PagesReceive(pages, msgs) ==
    [d \in Conns |-> IF mounted[d] THEN ClientReceives(pages[d], msgs[d])
                                   ELSE pages[d]]

\* the sequencers after each page handled what one callback sent it
SequencersAfter(seqs, pages, msgs) ==
    [d \in Conns |-> IF mounted[d] THEN SequencerAfter(seqs[d], pages[d], msgs[d])
                                   ELSE seqs[d]]

\* the server after `ruby server.rb`, before any connection
InitServer ==
    /\ drum_pattern = InitialDrumPattern
    /\ sockets = <<>>
    /\ session = [c \in Conns |-> "connecting"]
    /\ dead = {}
    /\ last = [event |-> "start"]
    /\ before = InitialDrumPattern
    /\ sockets_before = <<>>
    /\ sent = NoMessages
    /\ first_message = [c \in Conns |-> NothingYet]
    /\ raised = "none"
    /\ nframes = 0

\* every page has just been mounted: no slider was moved, no sequencer runs
InitPage ==
    /\ mounted = [c \in Conns |-> TRUE]
    /\ paramUpdateTimeouts = [c \in Conns |-> [t \in SliderTracks |-> NoTimeout]]
    /\ sequenceRef = [c \in Conns |-> NoSequence]

\* the server with peers that send frames of any shape and whose own state
\* is not followed
Init ==
    /\ InitServer
    /\ InitPage
    /\ client = [c \in Conns |-> NoClient]

\* the server with a DrumMachine page at the other end of every connection
InitClient ==
    /\ InitServer
    /\ InitPage
    /\ client = [c \in Conns |-> ClientInitial]

\* a greeting that serialises the state the server started with
OnOpenSends_InitialState(socks, ws, dp) ==
    [NoMessages EXCEPT
        ![ws] = << Message("state_update", GenerateState(InitialDrumPattern)) >>]

\* a greeting that goes to every registered socket
OnOpenSends_ToAll(socks, ws, dp) ==
    [c \in Conns |->
        IF \E i \in 1..Len(socks) : socks[i] = c
        THEN << Message("state_update", GenerateState(dp)) >>
        ELSE <<>>]

\* ws.send(JSON.generate({type: 'state_update', data: $drum_pattern})) in
\* ws.onopen: what each connection is sent.  socks is settings.sockets after
\* `settings.sockets << ws`.
OnOpenSends(socks, ws, dp) ==
    [NoMessages EXCEPT
        ![ws] = << Message("state_update", GenerateState(dp)) >>]

\* ws.onopen.  Connections are numbered in the order the server accepts them.
ws_onopen(c) ==
    /\ \/ session[c] = "reconnecting"
       \/ /\ session[c] = "connecting"
          /\ \A d \in Conns : d < c => session[d] # "connecting"
    /\ session' = [session EXCEPT ![c] = "open"]
    /\ sockets' = Append(sockets, c)
    /\ sent' = OnOpenSends(sockets', c, drum_pattern)
    /\ first_message' = [d \in Conns |->
                           FirstMessage(first_message[d], sent'[d], drum_pattern)]
    /\ client' = PagesReceive(client, sent')
    /\ sequenceRef' = SequencersAfter(sequenceRef, client, sent')
    /\ last' = [event |-> "open", conn |-> c,
                again |-> (session[c] = "reconnecting")]
    /\ before' = drum_pattern
    /\ sockets_before' = sockets
    /\ raised' = "none"
    /\ UNCHANGED <<drum_pattern, dead, nframes, timers>>

\* ws.onmessage runs for a frame of connection c, and the pages handle what
\* it sends them.  pages and seqs are the pages' React states and sequencers
\* when the frame arrives.
Handle(c, msg, pages, seqs) ==
    /\ session[c] = "open"
    /\ c \notin dead
    /\ LET r == OnMessage(drum_pattern, msg)
           b == Broadcast(sockets, dead, r.broadcast)
       IN  /\ drum_pattern' = r.drum_pattern
           /\ sent' = b.sent
           /\ raised' = IF r.raised # "none" THEN r.raised ELSE b.raised
    /\ first_message' = [d \in Conns |->
                           FirstMessage(first_message[d], sent'[d], drum_pattern')]
    /\ client' = PagesReceive(pages, sent')
    /\ sequenceRef' = SequencersAfter(seqs, pages, sent')
    /\ last' = IF msg = NotJSON
               THEN [event |-> "unparsed", conn |-> c]
               ELSE [event |-> "message", conn |-> c, data |-> msg]
    /\ before' = drum_pattern
    /\ sockets_before' = sockets
    /\ UNCHANGED <<sockets, session, dead>>

\* ws.onmessage
ws_onmessage(c, msg) ==
    /\ nframes < MaxFrames
    /\ Handle(c, msg, client, sequenceRef)
    /\ nframes' = nframes + 1
    /\ UNCHANGED timers

\* a delete by position that falls back to the last position when the
\* element is absent (delete_at(index(x) || -1))
ArrayDelete_DropsLastWhenAbsent(arr, x) ==
    IF \E i \in 1..Len(arr) : arr[i] = x
    THEN SelectSeq(arr, LAMBDA y : y # x)
    ELSE SubSeq(arr, 1, Len(arr) - 1)

\* a delete that removes the oldest element (shift)
ArrayDelete_Shift(arr, x) == SubSeq(arr, 2, Len(arr))

\* a delete that removes nothing
ArrayDelete_KeepsAll(arr, x) == arr

\* Array#delete: removes every element equal to the connection
ArrayDelete(arr, x) == SelectSeq(arr, LAMBDA y : y # x)

\* ws.onclose.  The callback also runs for a close event that is reported
\* again for a connection it already removed.
ws_onclose(c) ==
    /\ session[c] \in {"open", "closed"}
    /\ session' = [session EXCEPT ![c] = "closed"]
    /\ sockets' = ArrayDelete(sockets, c)
    /\ dead' = dead \ {c}
    /\ sent' = NoMessages
    /\ last' = [event |-> "close", conn |-> c]
    /\ before' = drum_pattern
    /\ sockets_before' = sockets
    /\ raised' = "none"
    /\ UNCHANGED <<drum_pattern, first_message, client, nframes, timers,
                   sequenceRef>>

\* wsRef.current.onclose: setTimeout(connectWebSocket, 3000), and the timer
\* fires: the page opens a new WebSocket.  The new socket takes the place of
\* the closed one in the model; nothing has been sent on it yet.
client_retry(c) ==
    /\ session[c] = "closed"
    /\ client[c] # NoClient
    /\ session' = [session EXCEPT ![c] = "reconnecting"]
    /\ first_message' = [first_message EXCEPT ![c] = NothingYet]
    /\ last' = [event |-> "retry", conn |-> c]
    /\ sent' = NoMessages
    /\ before' = drum_pattern
    /\ sockets_before' = sockets
    /\ raised' = "none"
    /\ UNCHANGED <<drum_pattern, sockets, dead, client, nframes, timers,
                   sequenceRef>>

\* sendWebSocketMessage while wsRef.current.readyState is not OPEN: the
\* condition fails and nothing is sent
Discard(c, msg, pages, seqs) ==
    /\ session[c] # "open"
    /\ client' = pages
    /\ sequenceRef' = seqs
    /\ last' = [event |-> "discarded", conn |-> c, data |-> msg]
    /\ sent' = NoMessages
    /\ before' = drum_pattern
    /\ sockets_before' = sockets
    /\ raised' = "none"
    /\ UNCHANGED <<drum_pattern, sockets, session, dead, first_message>>

\* sendWebSocketMessage(message): wsRef.current.send(JSON.stringify(message))
\* if the socket is OPEN, and the server handles the frame.  pages and seqs
\* are the pages' states after what the caller did before the call.
sendWebSocketMessage(c, msg, pages, seqs) ==
    \/ Handle(c, msg, pages, seqs)
    \/ Discard(c, msg, pages, seqs)

\* setParams(prev => ({...prev, [track]: newParams})) and the render after
\* it: params is a dependency of the sequencer effect, whose else branch
\* ends with setCurrentStep(0).  The page's own tracks (arp, bass) are not
\* among the params the model follows.
SetParams(state, track, newParams) ==
    LET next == IF track \in DOMAIN state.params
                THEN [state EXCEPT !.params[track] = newParams]
                ELSE state
    IN  IF next.isPlaying # JsBoolean(TRUE)
        THEN [next EXCEPT !.currentStep = JsNumber(Integer(0))]
        ELSE next

\* params[track] of the page, for the slider's spread
PageParams(state, track) ==
    IF track \in DOMAIN state.params
    THEN state.params[track]
    ELSE [n \in {"volume"} |-> JsNumber(Float("0.4"))]

\* a debounce that clears the timers of every track
SetTimeout_ClearsAll(timeouts, track, timer) ==
    [t \in DOMAIN timeouts |-> IF t = track THEN timer ELSE NoTimeout]

\* clearTimeout(paramUpdateTimeouts.current[track]);
\* paramUpdateTimeouts.current[track] = setTimeout(..., 100)
SetTimeout(timeouts, track, timer) == [timeouts EXCEPT ![track] = timer]

\* A slider moves: onChange calls updateParams(track, {...params[track],
\* [name]: value}).  The sliders of the server's tracks are disabled while
\* the page is not connected.  The timer keeps newParams, and (to state
\* what becomes of the command) whether the socket was OPEN at the call.
updateParams(c, input) ==
    /\ client[c] # NoClient
    /\ mounted[c]
    /\ input.track \in TrackNames => session[c] = "open"
    /\ LET newParams == SpreadParams(PageParams(client[c], input.track),
                                     input.name, input.value)
       IN  /\ client' = [client EXCEPT ![c] = SetParams(@, input.track, newParams)]
           /\ paramUpdateTimeouts' =
                 [paramUpdateTimeouts EXCEPT ![c] =
                     SetTimeout(@, input.track,
                                Timeout(newParams, session[c] = "open",
                                        IF @[input.track].pending
                                        THEN @[input.track].names \cup {input.name}
                                        ELSE {input.name}))]
    /\ sequenceRef' = [sequenceRef EXCEPT ![c] = RunEffect(@, client'[c])]
    /\ last' = [event |-> "updateParams", conn |-> c, input |-> input]
    /\ sent' = NoMessages
    /\ before' = drum_pattern
    /\ sockets_before' = sockets
    /\ raised' = "none"
    /\ UNCHANGED <<drum_pattern, sockets, session, dead, first_message, nframes,
                   mounted>>

\* the frame a debounce timer sends
UpdateParamsFrame(track, newParams) ==
    [type |-> Str("update_params"), track |-> Str(track),
     params |-> StringifyParams(newParams)]

\* a debounce timer fires, 100 ms after the last change to its track;
\* paramUpdateTimeouts.current[track] keeps the timer that fired
timeout_fires(c, track) ==
    /\ paramUpdateTimeouts[c][track].pending
    /\ paramUpdateTimeouts' = [paramUpdateTimeouts EXCEPT
                                  ![c][track].pending = FALSE]
    /\ sendWebSocketMessage(c, UpdateParamsFrame(track,
                                   paramUpdateTimeouts[c][track].params),
                            client, sequenceRef)
    /\ UNCHANGED <<nframes, mounted>>

\* the play/stop button, or the space bar: handlePlayStop, both only while
\* the page is connected
handlePlayStop(c) ==
    /\ client[c] # NoClient
    /\ mounted[c]
    /\ session[c] = "open"
    /\ sendWebSocketMessage(c, [type |-> Str("transport_control"),
                                action |-> IF client[c].isPlaying = JsBoolean(TRUE)
                                           THEN Str("stop") ELSE Str("play")],
                            client, sequenceRef)
    /\ UNCHANGED <<nframes, timers>>

\* the callback of the companion-mode setInterval
interval_tick(c) ==
    /\ sequenceRef[c].running
    /\ LET step == sequenceRef[c].currentStepLocal
       IN  sendWebSocketMessage(c, [type |-> Str("step_update"), step |-> Integer(step)],
               [client EXCEPT ![c].currentStep = JsNumber(Integer(step))],
               [sequenceRef EXCEPT ![c] =
                   Interval(NextStep(step),
                            IF session[c] = "open" THEN <<step>> ELSE @.emitted)])
    /\ UNCHANGED <<nframes, timers>>

\* The component unmounts: the cleanups of its effects run.  The sequencer's
\* stops the interval; the WebSocket effect's calls wsRef.current.close(),
\* which closes a socket that is open or being opened, and the server and
\* the socket's onclose (which sets the retry timer) run.
cleanup(c) ==
    /\ client[c] # NoClient
    /\ mounted[c]
    /\ mounted' = [mounted EXCEPT ![c] = FALSE]
    /\ sequenceRef' = [sequenceRef EXCEPT ![c] = NoSequence]
    /\ session' = [session EXCEPT ![c] = "closed"]
    /\ sockets' = ArrayDelete(sockets, c)
    /\ dead' = dead \ {c}
    /\ sent' = NoMessages
    /\ last' = [event |-> "cleanup", conn |-> c]
    /\ before' = drum_pattern
    /\ sockets_before' = sockets
    /\ raised' = "none"
    /\ UNCHANGED <<drum_pattern, first_message, client, nframes,
                   paramUpdateTimeouts>>

\* an endpoint that serves the state the server started with
ApiState_Initial(dp) == GenerateState(InitialDrumPattern)

\* get '/api/state': content_type :json; JSON.generate($drum_pattern)
ApiState(dp) == GenerateState(dp)

\* an HTTP client requests GET /api/state
get_api_state ==
    /\ last' = [event |-> "get", path |-> "/api/state",
                body |-> ApiState(drum_pattern)]
    /\ sent' = NoMessages
    /\ before' = drum_pattern
    /\ sockets_before' = sockets
    /\ raised' = "none"
    /\ UNCHANGED <<drum_pattern, sockets, session, dead, first_message, client,
                   nframes, timers, sequenceRef>>

\* The peer of an open connection goes away without a close handshake: from
\* now on s.send on that socket raises, until the reactor runs its onclose.
SocketDies(c) ==
    /\ session[c] = "open"
    /\ c \notin dead
    /\ dead' = dead \cup {c}
    /\ UNCHANGED <<drum_pattern, sockets, session, last, before, sockets_before,
                   sent, first_message, client, raised, nframes, timers,
                   sequenceRef>>

Next ==
    \/ \E c \in Conns : ws_onopen(c)
    \/ \E c \in Conns : \E msg \in WireFrames : ws_onmessage(c, msg)
    \/ \E c \in Conns : ws_onclose(c)
    \/ get_api_state

\* every s.send succeeds
Spec == Init /\ [][Next]_vars

NextSendFails ==
    \/ Next
    \/ \E c \in Conns : SocketDies(c)

\* s.send may raise on a registered socket
SpecSendFails == Init /\ [][NextSendFails]_vars

\* malformed frames among two well-formed ones
NextMalformed ==
    \/ \E c \in Conns : ws_onopen(c)
    \/ \E c \in Conns :
          \E msg \in MalformedFrames
                      \cup { [type |-> Str("toggle_step"), track |-> Str("kick"),
                               step |-> Integer(3)],
                             [type |-> Str("clear_pattern")] } :
              ws_onmessage(c, msg)
    \/ \E c \in Conns : ws_onclose(c)

\* the server receiving malformed frames, every send succeeding
SpecMalformed == Init /\ [][NextMalformed]_vars

\* Frames for the specification that follows the pages: what the page's
\* controls send (a step of the grid, a volume, play, stop, a tempo of the
\* slider, a sequencer step, clear), and one toggle_step outside the grid.
ClientFrames ==
    { [type |-> Str("toggle_step"), track |-> Str("kick"), step |-> s] :
          s \in {Integer(3), Integer(20)} }
    \cup { [type |-> Str("update_params"), track |-> Str("kick"),
            params |-> VolumeParams] }
    \cup { [type |-> Str("transport_control"), action |-> Str(a)] :
          a \in {"play", "stop"} }
    \cup { [type |-> Str("transport_control"), action |-> Str("set_bpm"),
            bpm |-> Integer(90)] }
    \cup { [type |-> Str("step_update"), step |-> Integer(3)] }
    \cup { [type |-> Str("clear_pattern")] }

NextClient ==
    \/ \E c \in Conns : ws_onopen(c)
    \/ \E c \in Conns : \E msg \in ClientFrames : ws_onmessage(c, msg)
    \/ \E c \in Conns : ws_onclose(c)
    \/ \E c \in Conns : client_retry(c)

\* the server with DrumMachine pages as peers, every send succeeding
SpecClient == InitClient /\ [][NextClient]_vars

\* Frames for the specification of the reconnection: a step of the grid,
\* a volume, play, a sequencer step.
ReconnectFrames ==
    { [type |-> Str("toggle_step"), track |-> Str("kick"), step |-> Integer(3)],
      [type |-> Str("update_params"), track |-> Str("kick"), params |-> VolumeParams],
      [type |-> Str("transport_control"), action |-> Str("play")],
      [type |-> Str("step_update"), step |-> Integer(3)] }

NextReconnect ==
    \/ \E c \in Conns : ws_onopen(c)
    \/ \E c \in Conns : \E msg \in ReconnectFrames : ws_onmessage(c, msg)
    \/ \E c \in Conns : ws_onclose(c)
    \/ \E c \in Conns : client_retry(c)

\* the server with a DrumMachine page at the other end of the first
\* connection it accepts, and peers whose state is not followed on the others
InitOnePage ==
    /\ InitServer
    /\ InitPage
    /\ client = [c \in Conns |-> IF c = 1 THEN ClientInitial ELSE NoClient]

\* The server with one page among its peers, every send succeeding.  The
\* retry timer of a page whose socket closed fires (setTimeout, 3000 ms), and
\* the server accepts a connection that is being opened (the reactor runs
\* onopen for it).
SpecReconnect ==
    /\ InitOnePage
    /\ [][NextReconnect]_vars
    /\ \A c \in Conns : WF_vars(client_retry(c)) /\ WF_vars(ws_onopen(c))

NextSliders ==
    \/ \E c \in Conns : ws_onopen(c)
    \/ \E c \in Conns : \E input \in SliderInputs : updateParams(c, input)
    \/ \E c \in Conns : \E track \in SliderTracks : timeout_fires(c, track)
    \/ \E c \in Conns : ws_onclose(c)
    \/ \E c \in Conns : client_retry(c)

\* the server with one page among its peers, whose user moves sliders
SpecSliders == InitOnePage /\ [][NextSliders]_vars

\* the sliders of the kick track
KickSliders == {input \in SliderInputs : input.track = "kick"}

NextTwoPages ==
    \/ \E c \in Conns : ws_onopen(c)
    \/ \E c \in Conns : \E input \in KickSliders : updateParams(c, input)
    \/ \E c \in Conns : timeout_fires(c, "kick")

\* the server with DrumMachine pages as peers, whose users move the sliders
\* of the kick track
SpecTwoPages == InitClient /\ [][NextTwoPages]_vars

NextCompanion ==
    \/ \E c \in Conns : ws_onopen(c)
    \/ \E c \in Conns : handlePlayStop(c)
    \/ \E c \in Conns : interval_tick(c)
    \/ \E c \in Conns :
          ws_onmessage(c, [type |-> Str("toggle_step"), track |-> Str("kick"),
                           step |-> Integer(3)])
    \/ \E c \in Conns : ws_onclose(c)
    \/ \E c \in Conns : client_retry(c)

\* the server with one companion-mode page among its peers: the page's
\* play/stop button, the ticks of its sequencer, and clicks on the grid
SpecCompanion == InitOnePage /\ [][NextCompanion]_vars

NextUnmount ==
    \/ NextReconnect
    \/ \E c \in Conns : cleanup(c)

\* the server with one page among its peers, and the page may be unmounted
SpecUnmount == InitOnePage /\ [][NextUnmount]_vars

(***************************************************************************)
(* Properties                                                              *)
(***************************************************************************)
\* the callback that ran last handled a frame of this type
Handled(type) == last.event = "message" /\ last.data.type = Str(type)

\* the connection is in settings.sockets
Registered(c) == \E i \in 1..Len(sockets) : sockets[i] = c

\* the step indices of a 16-step pattern
ValidSteps == 0..(PatternLength - 1)

\* the last frame named one of the server's tracks, and an Integer step
\* (toggle_step) that is / is not one of the 16 steps
LastTrack == last.data.track.value
LastStep == last.data.step.value

TransportOf(dp) == <<dp.bpm, dp.playing, dp.current_step>>
ParamsOf(dp) == [t \in DOMAIN dp.tracks |-> dp.tracks[t].params]
PatternsOf(dp) == [t \in DOMAIN dp.tracks |-> dp.tracks[t].pattern]

\* C1: in every reachable state every track's pattern is a sequence of
\* exactly 16 booleans.
C1_PatternsAre16Booleans ==
    \A t \in TrackNames :
        /\ Len(drum_pattern.tracks[t].pattern) = PatternLength
        /\ \A i \in 1..Len(drum_pattern.tracks[t].pattern) :
              drum_pattern.tracks[t].pattern[i] \in {True, False}

\* C2: in every reachable state the tempo is an integer within [60, 180].
C2_TempoWithinRange ==
    /\ drum_pattern.bpm.class = "Integer"
    /\ drum_pattern.bpm.value \in 60..180

\* C3: in every reachable state current_step is an integer in [0, 15].
C3_CurrentStepWithinRange ==
    /\ drum_pattern.current_step.class = "Integer"
    /\ drum_pattern.current_step.value \in ValidSteps

\* C4: a toggle_step for a known track and a step in [0,15], handled right
\* after a toggle_step for the same track and step, returns that track's
\* pattern to its value before the first of the two.
C4_ToggleTwiceRestoresPattern ==
    [][ ( /\ Handled("toggle_step")
          /\ KnownTrack(last.data.track)
          /\ LastStep \in ValidSteps
          /\ nframes' = nframes + 1
          /\ last'.event = "message"
          /\ last'.data = last.data )
        => drum_pattern'.tracks[LastTrack].pattern = before.tracks[LastTrack].pattern
      ]_vars

\* two toggle_step frames for kick, step 3 were handled and kick's pattern is
\* back to all false
C4_Witness ==
    /\ nframes = 2
    /\ last.event = "message"
    /\ last.data = [type |-> Str("toggle_step"), track |-> Str("kick"), step |-> Integer(3)]
    /\ before.tracks["kick"].pattern[4] = True
    /\ drum_pattern.tracks["kick"].pattern = ArrayNew(PatternLength, False)

\* C5: a toggle_step naming a known track and a step outside [0,15] sends
\* nothing and leaves the whole document unchanged.
C5_OutOfRangeStepDropped ==
    ( /\ Handled("toggle_step")
      /\ KnownTrack(last.data.track)
      /\ LastStep \notin ValidSteps )
    => /\ drum_pattern = before
       /\ sent = NoMessages

\* C6: a toggle_step or update_params frame whose track is not one of the
\* server's tracks leaves the document unchanged and sends no message.
C6_UnknownTrackIgnored ==
    ( /\ (Handled("toggle_step") \/ Handled("update_params"))
      /\ last.data.track.class = "String"
      /\ ~KnownTrack(last.data.track) )
    => /\ drum_pattern = before
       /\ sent = NoMessages

\* an update_params for arp was handled while two connections were
\* registered and the document already differed from its initial value
C6_Witness ==
    /\ Handled("update_params")
    /\ last.data.track = Str("arp")
    /\ Len(sockets) = 2
    /\ drum_pattern # InitialDrumPattern

\* the entries of a params Hash whose name is not among names
EntriesNotNamed(h, names) == SelectSeq(h, LAMBDA e : e.key.value \notin names)
\* the member names of the params object of the last frame
LastParamNames ==
    {last.data.params.entries[i].key.value : i \in 1..Len(last.data.params.entries)}

\* C7: update_params for a known track changes only the fields named in the
\* frame's params object: every other field of that track's params, every
\* other track's params, all patterns and the transport keep their values.
C7_UpdateParamsChangesOnlyNamedFields ==
    ( Handled("update_params") /\ KnownTrack(last.data.track) )
    => /\ EntriesNotNamed(drum_pattern.tracks[LastTrack].params, LastParamNames)
            = EntriesNotNamed(before.tracks[LastTrack].params, LastParamNames)
       /\ \A t \in TrackNames \ {LastTrack} :
              drum_pattern.tracks[t].params = before.tracks[t].params
       /\ PatternsOf(drum_pattern) = PatternsOf(before)
       /\ TransportOf(drum_pattern) = TransportOf(before)

\* volume was merged into kick's params after snare's pitch had been updated
C7_Witness ==
    /\ Handled("update_params")
    /\ last.data.track = Str("kick")
    /\ last.data.params = VolumeParams
    /\ HashGet(drum_pattern.tracks["kick"].params, Str("volume")) = Float("0.5")
    /\ HashGet(before.tracks["snare"].params, Str("pitch")) = Integer(72)

\* C8: after a clear_pattern every track's pattern is 16 false values.
C8_ClearMakesAllPatternsFalse ==
    Handled("clear_pattern")
    => \A t \in TrackNames :
          drum_pattern.tracks[t].pattern = ArrayNew(PatternLength, False)

\* a clear_pattern was handled when kick's pattern had grown past 16 entries
C8_Witness ==
    /\ Handled("clear_pattern")
    /\ Len(before.tracks["kick"].pattern) > PatternLength
    /\ drum_pattern.tracks["kick"].pattern = ArrayNew(PatternLength, False)

\* C9: clear_pattern leaves every track's params and the transport fields as
\* they were, and what it broadcasts is one state_update carrying the
\* document as it is after the clear, to each registered connection.
C9_ClearKeepsParamsAndBroadcastsState ==
    Handled("clear_pattern")
    => /\ ParamsOf(drum_pattern) = ParamsOf(before)
       /\ TransportOf(drum_pattern) = TransportOf(before)
       /\ \A c \in Conns :
              sent[c] = IF Registered(c)
                        THEN << Message("state_update", GenerateState(drum_pattern)) >>
                        ELSE <<>>

\* a clear_pattern was handled with two connections registered, after a step
\* of snare had been switched on
C9_Witness ==
    /\ Handled("clear_pattern")
    /\ Len(sockets) = 2
    /\ before.tracks["snare"].pattern[4] = True
    /\ sent[last.conn] # <<>>

\* C10: after a toggle_step that went through, a pattern_update carrying the
\* frame's track and step and the negation of the step's previous value is
\* sent to every registered connection, the sender included.
C10_ToggleBroadcastToAll ==
    ( /\ Handled("toggle_step")
      /\ KnownTrack(last.data.track)
      /\ raised = "none" )
    => /\ Registered(last.conn)
       /\ \A c \in Conns :
              Registered(c) =>
                 sent[c] = << Message("pattern_update",
                               [track |-> last.data.track,
                                step |-> last.data.step,
                                active |->
                                   Not(ArrayGet(before.tracks[LastTrack].pattern,
                                                LastStep))]) >>
       /\ ArrayGet(drum_pattern.tracks[LastTrack].pattern, LastStep)
             = Not(ArrayGet(before.tracks[LastTrack].pattern, LastStep))

\* connection 1 toggled kick's step 3 on while connection 2 was registered
\* too, and both were sent the pattern_update
C10_Witness ==
    /\ Handled("toggle_step")
    /\ last.conn = 1
    /\ last.data.track = Str("kick")
    /\ last.data.step = Integer(3)
    /\ sockets = <<1, 2>>
    /\ sent[1] = sent[2]
    /\ sent[2] = << Message("pattern_update",
                      [track |-> Str("kick"), step |-> Integer(3), active |-> True]) >>

\* the state_update that serialises dp
StateUpdate(dp) == Message("state_update", GenerateState(dp))

\* C11: the first message a connection is ever sent is the state_update of
\* its registration: nothing is sent to a connection before ws.onopen has
\* run for it, ws.onopen sends it exactly one message, a state_update whose
\* data is $drum_pattern as every earlier frame left it, and so every
\* broadcast that reaches the connection comes after that message.
C11_FirstMessageIsRegistrationSnapshot ==
    /\ \A c \in Conns :
          /\ session[c] = "connecting" =>
                first_message[c] = NothingYet /\ sent[c] = <<>>
          /\ session[c] # "connecting" =>
                first_message[c] = [type |-> "state_update", snapshot |-> TRUE]
    /\ last.event = "open" =>
          /\ sent[last.conn] = << StateUpdate(before) >>
          /\ drum_pattern = before

\* a connection registers after a frame has changed the state, and is sent
\* the changed state
C11_Witness ==
    /\ last.event = "open"
    /\ before # InitialDrumPattern
    /\ sent[last.conn] = << StateUpdate(drum_pattern) >>
    /\ first_message[last.conn].snapshot

\* C12: ws.onopen sends a state_update to the connection that opened and to
\* no other connection, and leaves $drum_pattern as it was.
C12_OpenSendsOnlyToNewConnection ==
    last.event = "open" =>
        /\ Len(sent[last.conn]) = 1
        /\ sent[last.conn][1].type = "state_update"
        /\ \A d \in Conns \ {last.conn} : sent[d] = <<>>
        /\ drum_pattern = before

\* a connection opens while another one is registered
C12_Witness ==
    /\ last.event = "open"
    /\ Len(sockets_before) >= 1
    /\ Registered(sockets_before[1])
    /\ sent[sockets_before[1]] = <<>>
    /\ sent[last.conn] # <<>>

\* the last frame was a transport_control with the given action
Transport(action) ==
    Handled("transport_control") /\ Field(last.data, "action") = Str(action)

\* the transport_update that reports the given values
TransportUpdate(playing, current_step, bpm) ==
    Message("transport_update",
            [playing |-> playing, current_step |-> current_step, bpm |-> bpm])

\* C13 as stated: when a connection sends transport_control play, every
\* other registered connection is sent a transport_update with playing =
\* true, current_step = 0 and bpm = the server's tempo.
C13_PlayReportsStepZero ==
    Transport("play") =>
        \A b \in Conns \ {last.conn} :
            Registered(b) =>
                sent[b] = << TransportUpdate(True, Integer(0), before.bpm) >>

\* C13 amended: when a connection sends transport_control play, every other
\* registered connection is sent a transport_update with playing = true,
\* bpm = the server's tempo, and current_step = the server's current step,
\* which play leaves as it was.
C13_PlayReportsCurrentStep ==
    Transport("play") =>
        \A b \in Conns \ {last.conn} :
            Registered(b) =>
                sent[b] = << TransportUpdate(True, before.current_step, before.bpm) >>

\* play arrives from one connection while another is registered and the
\* server's current step is 3
C13_Witness ==
    /\ Transport("play")
    /\ before.current_step = Integer(3)
    /\ \E b \in Conns \ {last.conn} :
          /\ Registered(b)
          /\ sent[b] = << TransportUpdate(True, Integer(3), drum_pattern.bpm) >>

\* the tempo a set_bpm frame carries, when it is an Integer in [60, 180]
SetsTempoInRange ==
    /\ Transport("set_bpm")
    /\ "bpm" \in DOMAIN last.data
    /\ last.data.bpm.class = "Integer"
    /\ last.data.bpm.value \in 60..180

\* C14: play sets playing to true and changes nothing else; stop sets
\* playing to false and current_step to 0 and changes nothing else; set_bpm
\* with a tempo in [60, 180] sets bpm to that tempo and changes nothing
\* else; and the transport_update sent to every registered connection
\* carries playing, current_step and bpm as the command left them.
C14_TransportCommandEffects ==
    /\ Transport("play") =>
          /\ drum_pattern.playing = True
          /\ drum_pattern.current_step = before.current_step
          /\ drum_pattern.bpm = before.bpm
    /\ Transport("stop") =>
          /\ drum_pattern.playing = False
          /\ drum_pattern.current_step = Integer(0)
          /\ drum_pattern.bpm = before.bpm
    /\ SetsTempoInRange =>
          /\ drum_pattern.bpm = last.data.bpm
          /\ drum_pattern.playing = before.playing
          /\ drum_pattern.current_step = before.current_step
    /\ (Transport("play") \/ Transport("stop") \/ SetsTempoInRange) =>
          /\ drum_pattern.tracks = before.tracks
          /\ \A c \in Conns :
                Registered(c) =>
                    sent[c] = << TransportUpdate(drum_pattern.playing,
                                                 drum_pattern.current_step,
                                                 drum_pattern.bpm) >>

\* stop arrives while the server's current step is 3 and two connections
\* are registered
C14_Witness ==
    /\ Transport("stop")
    /\ before.current_step = Integer(3)
    /\ drum_pattern.current_step = Integer(0)
    /\ Len(sockets) = 2
    /\ \A c \in Conns : Registered(c) => Len(sent[c]) = 1

\* C15: when a frame's handler broadcasts and the send to one recipient
\* fails, every registered recipient whose own send does not fail is still
\* sent the message, and no error from the failed send leaves the handler
\* of the frame.
C15_SendFailureIsIsolated ==
    (last.event = "message" /\ Dispatch(before, last.data).broadcast # <<>>) =>
        /\ \A c \in Conns \ dead :
              Registered(c) => sent[c] = Dispatch(before, last.data).broadcast
        /\ raised # "WebSocketError"

\* a send raised during the broadcast of the last frame
WriteFailed == last.event = "message" /\ raised = "WebSocketError"

\* C16 (what a failed write does to the other connections): when a write to
\* one connection fails during a broadcast, no other connection is
\* deregistered or otherwise affected: the registry and the sessions of the
\* other connections stay as they were, and every other registered
\* connection whose own write does not fail is sent the broadcast as if no
\* write had failed.
C16_WriteFailureAffectsOnlyFailingConnection ==
    WriteFailed =>
        /\ sockets = sockets_before
        /\ \A c \in Conns \ dead :
              Registered(c) =>
                  /\ session[c] = "open"
                  /\ Len(sent[c]) = Len(Dispatch(before, last.data).broadcast)

\* the connection was in settings.sockets when the last callback started
RegisteredBefore(c) == \E i \in 1..Len(sockets_before) : sockets_before[i] = c

C18_RepeatedCloseChangesNothing ==
    /\ (last.event = "close" /\ ~RegisteredBefore(last.conn)) =>
          /\ sockets = sockets_before
          /\ drum_pattern = before
          /\ sent = NoMessages
          /\ raised = "none"
    /\ \A c \in Conns :
          session[c] = "closed" => ~Registered(c) /\ sent[c] = <<>>

\* a second close event arrives for a removed connection while another
\* connection is registered and the state has been changed
C18_Witness ==
    /\ last.event = "close"
    /\ ~RegisteredBefore(last.conn)
    /\ session[last.conn] = "closed"
    /\ Len(sockets) >= 1
    /\ drum_pattern # InitialDrumPattern

\* C19: ws.onclose removes the closing connection from the registry and no
\* other, sends no message to any connection, and leaves $drum_pattern as
\* it was.
C19_CloseRemovesOnlyClosingConnection ==
    last.event = "close" =>
        /\ ~Registered(last.conn)
        /\ \A c \in Conns \ {last.conn} : Registered(c) <=> RegisteredBefore(c)
        /\ sent = NoMessages
        /\ drum_pattern = before

\* a registered connection closes while another one stays registered and
\* the state has been changed
C19_Witness ==
    /\ last.event = "close"
    /\ RegisteredBefore(last.conn)
    /\ Len(sockets) >= 1
    /\ drum_pattern # InitialDrumPattern

\* the last frame was text that JSON.parse rejects
Unparsed == last.event = "unparsed"

\* C20: a frame that is not parseable JSON is dropped: $drum_pattern is
\* unchanged, nothing is sent to any connection, no error leaves the
\* handler, the sender stays registered and open, and a valid frame that
\* the same connection sends next is processed as any valid frame is.
C20_UnparsableFrameIsDropped ==
    /\ [](Unparsed =>
            /\ drum_pattern = before
            /\ sent = NoMessages
            /\ raised = "none"
            /\ sockets = sockets_before
            /\ Registered(last.conn)
            /\ session[last.conn] = "open")
    /\ [][(Unparsed /\ last'.event = "message" /\ last'.conn = last.conn) =>
            /\ drum_pattern' = Dispatch(drum_pattern, last'.data).drum_pattern
            /\ \A c \in Conns :
                  Registered(c) =>
                      sent'[c] = Dispatch(drum_pattern, last'.data).broadcast]_vars

\* an unparsable frame has arrived from a connection while another one is
\* registered, and the server is ready to take a toggle_step from the same
\* connection
C20_Witness ==
    /\ Unparsed
    /\ Len(sockets) = 2
    /\ ENABLED ws_onmessage(last.conn,
                            [type |-> Str("toggle_step"), track |-> Str("kick"),
                             step |-> Integer(3)])

\* the types ws.onmessage has a when-branch for
KnownTypes ==
    {Str("toggle_step"), Str("update_params"), Str("transport_control"),
     Str("step_update"), Str("clear_pattern")}

\* C21: a frame whose type is none of toggle_step, update_params,
\* transport_control, step_update, clear_pattern leaves $drum_pattern and
\* the registry unchanged and sends nothing to any connection, the sender
\* included.
C21_UnknownTypeIgnored ==
    (last.event = "message" /\ Field(last.data, "type") \notin KnownTypes) =>
        /\ drum_pattern = before
        /\ sockets = sockets_before
        /\ sent = NoMessages
        /\ raised = "none"

\* a frame of type ping arrives while two connections are registered and
\* the state has been changed
C21_Witness ==
    /\ Handled("ping")
    /\ Len(sockets) = 2
    /\ Registered(last.conn)
    /\ drum_pattern # InitialDrumPattern

AnswerType(type) ==
    CASE type = Str("toggle_step") -> "pattern_update"
      [] type = Str("update_params") -> "params_update"
      [] type = Str("transport_control") -> "transport_update"
      [] type = Str("step_update") -> "step_position"
      [] type = Str("clear_pattern") -> "state_update"
      [] OTHER -> ""

\* the message reports dp, the state it is compared with
Reflects(m, dp) ==
    CASE m.type = "pattern_update" ->
            m.data.active = ArrayGet(dp.tracks[m.data.track.value].pattern,
                                     m.data.step.value)
      [] m.type = "params_update" ->
            m.data.params = GenerateParams(dp.tracks[m.data.track.value].params)
      [] m.type = "transport_update" ->
            m.data = [playing |-> dp.playing,
                      current_step |-> dp.current_step,
                      bpm |-> dp.bpm]
      [] m.type = "step_position" -> m.data.current_step = dp.current_step
      [] m.type = "state_update" -> m.data = GenerateState(dp)
      [] OTHER -> FALSE

\* C23: commands are applied one at a time: the state after a frame is the
\* state the previous callback left with that one frame's change applied,
\* and every message the frame's handler sends is the answer to that frame
\* and reports the state as it is right after that frame's change.
C23_BroadcastReflectsOwnCommand ==
    last.event = "message" =>
        /\ drum_pattern = Dispatch(before, last.data).drum_pattern
        /\ \A c \in Conns : \A i \in 1..Len(sent[c]) :
              /\ sent[c][i].type = AnswerType(last.data.type)
              /\ Reflects(sent[c][i], drum_pattern)

\* the second of two frames, a toggle_step from connection 2, is answered
\* to both connections after an earlier frame changed the state
C23_Witness ==
    /\ Handled("toggle_step")
    /\ last.conn = 2
    /\ nframes = 2
    /\ before # InitialDrumPattern
    /\ drum_pattern # before
    /\ sent[1] # <<>>
    /\ sent[2] # <<>>

\* C27: GET /api/state returns the current full state (bpm, playing,
\* current_step and every track with its pattern and its params), changes
\* neither $drum_pattern nor the registry, and sends nothing to any
\* connection.
C27_ApiStateIsReadOnly ==
    last.event = "get" =>
        /\ last.body.bpm = drum_pattern.bpm
        /\ last.body.playing = drum_pattern.playing
        /\ last.body.current_step = drum_pattern.current_step
        /\ DOMAIN last.body.tracks = TrackNames
        /\ \A t \in TrackNames :
              /\ last.body.tracks[t].pattern = drum_pattern.tracks[t].pattern
              /\ last.body.tracks[t].params =
                     GenerateParams(drum_pattern.tracks[t].params)
        /\ drum_pattern = before
        /\ sockets = sockets_before
        /\ sent = NoMessages

\* the state is requested after a frame has changed it and while a
\* connection is registered
C27_Witness ==
    /\ last.event = "get"
    /\ drum_pattern # InitialDrumPattern
    /\ Len(sockets) >= 1
    /\ last.body.tracks = GenerateState(drum_pattern).tracks

\* C28: current_step changes only when a step_update frame is handled (to
\* the frame's step) or a transport_control stop is handled (to 0); every
\* other event leaves it as it was.
C28_OnlyStepUpdateAndStopMoveStep ==
    [][drum_pattern'.current_step # drum_pattern.current_step =>
          /\ last'.event = "message"
          /\ \/ /\ Field(last'.data, "type") = Str("step_update")
                /\ drum_pattern'.current_step = Field(last'.data, "step")
             \/ /\ Field(last'.data, "type") = Str("transport_control")
                /\ Field(last'.data, "action") = Str("stop")
                /\ drum_pattern'.current_step = Integer(0)]_vars

\* a clear_pattern is handled while current_step is 3, and leaves it at 3
C28_Witness ==
    /\ Handled("clear_pattern")
    /\ before.current_step = Integer(3)
    /\ drum_pattern.current_step = Integer(3)

\* C29: step_update with step s sets current_step to s, sends step_position
\* with current_step = s to every registered connection, and leaves bpm,
\* playing, every pattern and every params unchanged.
C29_StepUpdateEffect ==
    Handled("step_update") =>
        /\ drum_pattern.current_step = last.data.step
        /\ drum_pattern.bpm = before.bpm
        /\ drum_pattern.playing = before.playing
        /\ drum_pattern.tracks = before.tracks
        /\ \A c \in Conns :
              Registered(c) =>
                  sent[c] = << Message("step_position",
                                       [current_step |-> last.data.step]) >>

\* step_update with step 20 is handled while two connections are registered
C29_Witness ==
    /\ Handled("step_update")
    /\ last.data.step = Integer(20)
    /\ drum_pattern.current_step = Integer(20)
    /\ Len(sockets) = 2
    /\ \A c \in Conns : Len(sent[c]) = 1

\* C30: a transport_control frame whose action is none of play, stop,
\* set_bpm, or is missing, is dropped: $drum_pattern is unchanged and no
\* message is sent to any connection.
C30_UnknownActionDropped ==
    ( /\ Handled("transport_control")
      /\ Field(last.data, "action") \notin {Str("play"), Str("stop"), Str("set_bpm")} )
    => /\ drum_pattern = before
       /\ sent = NoMessages

\* the server's tracks' patterns and params, playing, current_step and bpm as
\* the values a page holds of them
ServerView(dp) ==
    [pattern |-> [t \in TrackNames |-> JsArray(dp.tracks[t].pattern)],
     params |-> [t \in TrackNames |-> JsObject(GenerateParams(dp.tracks[t].params))],
     isPlaying |-> JsValue(dp.playing),
     currentStep |-> JsValue(dp.current_step),
     bpm |-> JsValue(dp.bpm)]

\* C24: every page that is connected holds a local copy (patterns and params
\* of the server's tracks, playing, current step, bpm) equal to the server's
\* state, after any sequence of commands from any connections.
C24_ClientHoldsServerState ==
    \A c \in Conns :
        (session[c] = "open" /\ client[c] # NoClient)
        => client[c] = ServerView(drum_pattern)

\* a page has just connected again and the server has sent it state_update
Reconnected(c) ==
    /\ last = [event |-> "open", conn |-> c, again |-> TRUE]
    /\ session[c] = "open"
    /\ Len(sent[c]) = 1
    /\ sent[c][1].type = "state_update"

ReconnectView(dp) ==
    [ServerView(dp) EXCEPT !.currentStep =
        IF dp.playing = True THEN JsValue(dp.current_step) ELSE JsNumber(Integer(0))]

C26_OneTimingAuthority ==
    drum_pattern.playing = True
    => Cardinality({c \in Conns : session[c] = "open" /\ SequencerRuns(client[c])}) <= 1

\* the frame lacks a member its branch reads, or is not an object
Malformed(data) == data \in MalformedFrames

\* C31: a frame that is valid JSON but lacks a required member (toggle_step
\* or update_params without track, update_params without params) or is not
\* a JSON object is ignored: the document is unchanged, nothing is sent, no
\* exception leaves the handler, and the registry is unchanged.
C31_MalformedFrameIgnored ==
    (last.event = "message" /\ Malformed(last.data))
    => /\ drum_pattern = before
       /\ sent = NoMessages
       /\ sockets = sockets_before
       /\ raised = "none"

\* C32: a toggle_step for a known track and a step in [0,15] changes that
\* one pattern entry only: the other steps of the track, the other tracks'
\* patterns, all params, bpm, playing, current_step and the registry are as
\* they were.
C32_ToggleChangesOneEntry ==
    ( /\ Handled("toggle_step")
      /\ KnownTrack(last.data.track)
      /\ LastStep \in ValidSteps )
    => /\ \A t \in TrackNames :
             /\ Len(drum_pattern.tracks[t].pattern) = Len(before.tracks[t].pattern)
             /\ \A i \in 1..Len(before.tracks[t].pattern) :
                   (t # LastTrack \/ i # LastStep + 1)
                   => drum_pattern.tracks[t].pattern[i] = before.tracks[t].pattern[i]
       /\ drum_pattern.tracks[LastTrack].pattern[LastStep + 1]
             # before.tracks[LastTrack].pattern[LastStep + 1]
       /\ ParamsOf(drum_pattern) = ParamsOf(before)
       /\ TransportOf(drum_pattern) = TransportOf(before)
       /\ sockets = sockets_before

\* step 3 of the kick is toggled while step 3 of the snare is on
C32_Witness ==
    /\ Handled("toggle_step")
    /\ last.data.track = Str("kick")
    /\ last.data.step = Integer(3)
    /\ before.tracks["snare"].pattern[4] = True
    /\ drum_pattern.tracks["snare"].pattern[4] = True
    /\ drum_pattern.tracks["kick"].pattern[4] = True

\* C33: settings.sockets holds exactly the connections that have opened and
\* not yet closed, each once, whatever the order of open, message and close
\* events.
C33_RegistryIsTheOpenConnections ==
    /\ \A c \in Conns : Registered(c) <=> session[c] = "open"
    /\ \A i, j \in 1..Len(sockets) : sockets[i] = sockets[j] => i = j

\* connection 1 has closed after a frame was handled, connection 2 is open
C33_Witness ==
    /\ MaxConns >= 2
    /\ session[1] = "closed"
    /\ session[2] = "open"
    /\ sockets = <<2>>
    /\ nframes >= 1

\* C34: in every reachable state, playing = false implies current_step = 0.
C34_StoppedRestsAtStepZero ==
    drum_pattern.playing = False => drum_pattern.current_step = Integer(0)

\* the value of each parameter of a track, as params_update and state_update
\* tell it to the pages
ParamsView(dp, track) == JsObject(GenerateParams(dp.tracks[track].params))

\* the server handled the update_params frame of a debounce timer of page
\* c, in which the user changed exactly the field `name` of the kick track
TimerChanged(name) ==
    /\ Handled("update_params")
    /\ last.data.track = Str("kick")
    /\ client[last.conn] # NoClient
    /\ paramUpdateTimeouts[last.conn]["kick"].names = {name}

NewVolume == JsNumber(Float("0.5"))
NewPitch == JsNumber(Integer(72))

\* C35: no lost update across fields.  When the server has processed one
\* user's change of the kick's volume and then processes another user's
\* change of the kick's pitch (or the other way round), the kick's params
\* hold both new values afterwards.
C35_NoLostUpdateAcrossFields ==
    /\ (TimerChanged("pitch") /\ ParamsView(before, "kick")["volume"] = NewVolume)
       => /\ ParamsView(drum_pattern, "kick")["volume"] = NewVolume
          /\ ParamsView(drum_pattern, "kick")["pitch"] = NewPitch
    /\ (TimerChanged("volume") /\ ParamsView(before, "kick")["pitch"] = NewPitch)
       => /\ ParamsView(drum_pattern, "kick")["volume"] = NewVolume
          /\ ParamsView(drum_pattern, "kick")["pitch"] = NewPitch

\* the names of the entries of a params Hash, as JSON.generate writes them
EntryNames(params) == [i \in 1..Len(params) |-> params[i].key.value]

\* C36: after any sequence of update_params commands every track's params
\* hold one entry per parameter name, so that params_update and state_update
\* carry each field once.
C36_OneEntryPerParameterName ==
    \A t \in DOMAIN drum_pattern.tracks :
        LET names == EntryNames(drum_pattern.tracks[t].params)
        IN  \A i, j \in 1..Len(names) : names[i] = names[j] => i = j

\* the server handled a frame that a debounce timer of a page sent
TimerFrameHandled ==
    /\ Handled("update_params")
    /\ client[last.conn] # NoClient
    /\ LastTrack \in SliderTracks

\* C37: the page transmits a command only while its socket is OPEN, and a
\* command issued while the socket is in any other state is never sent
\* later: the update_params frame the server handles comes from a change
\* made while the socket was OPEN.
C37_SendsOnlyWhatWasIssuedWhileOpen ==
    TimerFrameHandled
    => /\ session[last.conn] = "open"
       /\ paramUpdateTimeouts[last.conn][LastTrack].open

\* the debounce timer of track t of page c fires in this step
Fires(c, t) ==
    /\ paramUpdateTimeouts[c][t].pending
    /\ ~paramUpdateTimeouts'[c][t].pending

\* a page hands an update_params frame to its socket in this step
HandsUpdateParams(c) ==
    /\ last'.event \in {"message", "discarded"}
    /\ last'.conn = c
    /\ last'.data.type = Str("update_params")

\* C38: the debounce of the parameter sliders.  A change to a track
\* replaces the pending timer of that track by one that holds the new
\* params and leaves the timers of the other tracks as they are; a timer
\* that fires hands the params of the last change to the socket, once, and
\* no update_params frame leaves the page in any other way.
C38_DebouncePerTrack ==
    [][\A c \in Conns :
        /\ (last'.event = "updateParams" /\ last'.conn = c)
           => LET t == last'.input.track
              IN  /\ paramUpdateTimeouts'[c][t].pending
                  /\ paramUpdateTimeouts'[c][t].params[last'.input.name]
                        = last'.input.value
                  /\ \A u \in SliderTracks \ {t} :
                        paramUpdateTimeouts'[c][u] = paramUpdateTimeouts[c][u]
        /\ \A t \in SliderTracks :
              Fires(c, t)
              => /\ HandsUpdateParams(c)
                 /\ last'.data = UpdateParamsFrame(t, paramUpdateTimeouts[c][t].params)
                 /\ \A u \in SliderTracks \ {t} :
                       paramUpdateTimeouts'[c][u] = paramUpdateTimeouts[c][u]
        /\ (HandsUpdateParams(c) /\ client[c] # NoClient)
           => \E t \in SliderTracks : Fires(c, t) /\ last'.data.track = Str(t)
      ]_vars

\* a burst on the kick (volume, then pitch before the timer fired) has been
\* sent as one frame while a change to the bass is still pending
C38_Witness ==
    /\ last.event = "message"
    /\ TimerFrameHandled
    /\ LastTrack = "kick"
    /\ paramUpdateTimeouts[last.conn]["kick"].names = {"volume", "pitch"}
    /\ ParamsView(drum_pattern, "kick")["volume"] = NewVolume
    /\ ParamsView(drum_pattern, "kick")["pitch"] = NewPitch
    /\ paramUpdateTimeouts[last.conn]["bass"].pending

\* page c opens a new WebSocket in this step: connectWebSocket runs
OpensSocket(c) == session[c] = "closed" /\ session'[c] = "reconnecting"

\* C39: after the component is unmounted the page opens no new WebSocket.
\* (A page has at most one socket that is open or being opened: the model
\* keeps one session per page, the retry timer is set by the onclose of the
\* page's only socket.)
C39_NoSocketAfterUnmount ==
    [][\A c \in Conns : ~mounted[c] => ~OpensSocket(c)]_vars

\* page c sends a step_update frame in this step
SendsStep(c) ==
    /\ last'.event = "message"
    /\ last'.conn = c
    /\ last'.data.type = Str("step_update")

\* C40: the step_update frames of a companion-mode page.  Every step the
\* page sends is in 0..15; the first one after its sequencer (re)started is
\* 0 and every other one is the one sent before it plus one, modulo 16; the
\* page sends none unless its isPlaying is true, and no interval runs on a
\* page whose isPlaying is false.
C40_CompanionStepsCount ==
    [][\A c \in Conns :
        /\ SendsStep(c)
           => /\ last'.data.step.value \in 0..(PatternLength - 1)
              /\ client[c].isPlaying = JsBoolean(TRUE)
              /\ sequenceRef[c].running
              /\ last'.data.step.value =
                    IF sequenceRef[c].emitted = NoStep
                    THEN 0
                    ELSE (sequenceRef[c].emitted[1] + 1) % PatternLength
        /\ (client'[c] # NoClient /\ client'[c].isPlaying # JsBoolean(TRUE))
           => ~sequenceRef'[c].running
      ]_vars

\* the page has sent step 15 and its counter is back at 0
C40_Witness ==
    /\ Handled("step_update")
    /\ last.data.step = Integer(15)
    /\ client[last.conn] # NoClient
    /\ sequenceRef[last.conn] = Interval(0, <<15>>)
    /\ drum_pattern.current_step = Integer(15)

====
